---- MODULE Spec2Model ----
(***************************************************************************)
(* The guest side of a virtio ring (src/drivers/virtio-vring.cc).          *)
(*                                                                         *)
(* The ring lives in one block of memory that the constructor carves into  *)
(* the descriptor table, the available ring and the used ring by pointer   *)
(* arithmetic.  The model keeps that block as a word-addressed memory      *)
(* (one cell per 16-bit word, offsets relative to _vring_ptr), so that an  *)
(* index past the end of a table reads and writes the neighbouring         *)
(* structure exactly as the pointer arithmetic of the code does.  The     *)
(* block is taken at a page-aligned address there; ctor_layout computes    *)
(* the pointers for other addresses.                                       *)
(*                                                                         *)
(* The second part is the device registry of src/fs/devfs/device.c: the    *)
(* list of devices, their reference counts, and the threads calling in.    *)
(***************************************************************************)
EXTENDS Integers, Sequences, FiniteSets, TLC

VARIABLES
    num,        \* _num: the queue size given to the constructor
    q_index,    \* _q_index
    ctor,       \* how the constructor ended
    status,     \* "ok", or "ub" once an access left the allocated block
    mem,        \* the block behind _vring_ptr: word offset -> 16-bit value
    oob,        \* an index >= num was used on _desc or on _avail->_ring
    chains,     \* history: the add_buf calls that returned true
    usedLog,    \* history: the completions the device wrote
    polls,      \* history: get_buf calls made while a completion was waiting
    drvKicks,   \* the queue indices _drv->kick was called with
    lastRet,    \* the last guest call and what it returned
    call,       \* the last call of a static helper (get_size, need_event)
    device_list, \* src/fs/devfs/device.c: the devices linked from device_list
    heap,       \* the struct device objects: pointer -> contents
    thr,        \* the threads calling into device.c and where each one is
    devst,      \* "ok", "panic" after sys_panic, "uaf" after a use of freed memory
    ncalls      \* the device calls started so far

vringVars == <<num, q_index, ctor, status, mem, oob, chains, usedLog, polls,
               drvKicks, lastRet, call>>

devVars == <<device_list, heap, thr, devst, ncalls>>

vars == <<num, q_index, ctor, status, mem, oob, chains, usedLog, polls,
          drvKicks, lastRet, call, device_list, heap, thr, devst, ncalls>>

-----------------------------------------------------------------------------
(* Bounds of the model *)

MaxAddBuf == 2
MaxUsed == 2
MaxKicks == 1
MaxLog == 15
MaxAlignLog == 13

MaxDevCalls == 3

(* Inputs *)

\* the (num, q_index) pairs the constructor is called with
Configs == {<<0, 0>>, <<2, 1>>, <<3, 0>>, <<4, 1>>}
NullPtr == "nullptr"
UsedLens == {37}

-----------------------------------------------------------------------------
(* Types and constants of the headers *)

U16Mod == 65536
SizeofU16 == 2
SizeofDesc == 16
SizeofUsedElem == 8
VIRTIO_PCI_VRING_ALIGN == 4096
VRING_DESC_F_NEXT == 1
VRING_DESC_F_WRITE == 2

\* (u16) x
U16(x) == x % U16Mod

RECURSIVE Pow2(_)
Pow2(k) == IF k = 0 THEN 1 ELSE 2 * Pow2(k - 1)

IsPow2(n) == \E k \in 0..16 : n = Pow2(k)

\* x & ~m on unsigned operands, bit by bit
RECURSIVE AndNot(_, _)
AndNot(x, m) ==
    IF x = 0 THEN 0
    ELSE 2 * AndNot(x \div 2, m \div 2) + (x % 2) * (1 - (m % 2))

\* x | y on unsigned operands, bit by bit
RECURSIVE BitOr(_, _)
BitOr(x, y) ==
    IF x = 0 /\ y = 0 THEN 0
    ELSE 2 * BitOr(x \div 2, y \div 2)
         + (IF (x % 2) + (y % 2) > 0 THEN 1 ELSE 0)

\* whether the single-bit flag is set in f
HasFlag(f, flag) == (f \div flag) % 2 = 1

-----------------------------------------------------------------------------
(* The memory block *)

NoMem == [w \in {} |-> 0]

Rd(m, w) == IF w \in DOMAIN m THEN m[w] ELSE 0

Wr(m, w, v) ==
    IF v = 0
    THEN [x \in DOMAIN m \ {w} |-> m[x]]
    ELSE [x \in DOMAIN m \cup {w} |-> IF x = w THEN v ELSE m[x]]

\* a 32-bit store (little endian) of a value below 2^31
WrU32(m, w, v) == Wr(Wr(m, w, v % U16Mod), w + 1, (v \div U16Mod) % U16Mod)

\* a 64-bit store (little endian) of a value below 2^31
WrU64(m, w, v) == Wr(Wr(WrU32(m, w, v), w + 2, 0), w + 3, 0)

-----------------------------------------------------------------------------
(* Layout *)

get_size_round_down(n, align) ==
    AndNot(SizeofDesc * n + SizeofU16 * (3 + n), align - 1)
    + SizeofU16 * 3 + SizeofUsedElem * n

get_size(n, align) ==
    AndNot(SizeofDesc * n + SizeofU16 * (3 + n) + align - 1, align - 1)
    + SizeofU16 * 3 + SizeofUsedElem * n

VIRTIO_ALIGN(x) ==
    AndNot(x + (VIRTIO_PCI_VRING_ALIGN - 1), VIRTIO_PCI_VRING_ALIGN - 1)

\* sz of the constructor, in words
BlockWords(n) == VIRTIO_ALIGN(get_size(n, VIRTIO_PCI_VRING_ALIGN)) \div SizeofU16

InBlock(n, w) == w >= 0 /\ w < BlockWords(n)

\* &_desc[d], and the words of its fields
DescWord(d) == (SizeofDesc \div SizeofU16) * d
PaddrOf(d) == DescWord(d)
LenOf(d) == DescWord(d) + 4
FlagsOf(d) == DescWord(d) + 6
NextOf(d) == DescWord(d) + 7

\* _avail and its fields
AvailWord(n) == (n * SizeofDesc) \div SizeofU16
AvailFlagsWord(n) == AvailWord(n)
AvailIdxWord(n) == AvailWord(n) + 1
RingWord(n, k) == AvailWord(n) + 2 + k

\* _used and its fields
UsedWord(n) ==
    AndNot(SizeofU16 * RingWord(n, n) + SizeofU16 + VIRTIO_PCI_VRING_ALIGN - 1,
           VIRTIO_PCI_VRING_ALIGN - 1) \div SizeofU16
UsedIdxWord(n) == UsedWord(n) + 1
UsedElemWord(n, j) == UsedWord(n) + 2 + (SizeofUsedElem \div SizeofU16) * j

-----------------------------------------------------------------------------
(* The constructor, lines 15-33 *)

\* for (int i=0;i<num;i++) _avail->_ring[i] = i+1;  on the zeroed block
RECURSIVE InitRing(_, _, _)
InitRing(n, m, i) ==
    IF i < n THEN InitRing(n, Wr(m, RingWord(n, i), U16(i + 1)), i + 1) ELSE m

vring_ctor(n) == InitRing(n, NoMem, 0)

-----------------------------------------------------------------------------
(* add_buf, lines 62-87 *)

\* VRING_DESC_F_NEXT | (i>in)? VRING_DESC_F_WRITE:0
\* as C parses it: (VRING_DESC_F_NEXT | (i>in)) ? VRING_DESC_F_WRITE : 0
DescFlagsFor(i, in_) ==
    IF BitOr(VRING_DESC_F_NEXT, IF i > in_ THEN 1 ELSE 0) # 0
    THEN VRING_DESC_F_WRITE
    ELSE 0

\* the run left the allocated block: nothing more is known of the memory
Escaped(st) == [st EXCEPT !.ext = TRUE, !.oob = TRUE]

\* one pass of the loop body, lines 71-77, on st = [mem, desc, oob, ext]
add_buf_body(n, st, seg, i, in_) ==
    LET d == st.desc IN
    IF ~InBlock(n, NextOf(d)) THEN Escaped(st)
    ELSE
    LET m1 == Wr(st.mem, FlagsOf(d), DescFlagsFor(i, in_))
        m2 == WrU64(m1, PaddrOf(d), seg.paddr)
        m3 == WrU32(m2, LenOf(d), seg.len)
        idx == Rd(m3, AvailIdxWord(n))
    IN
    IF ~InBlock(n, RingWord(n, idx)) THEN Escaped([st EXCEPT !.mem = m3])
    ELSE
    LET m4 == Wr(m3, NextOf(d), Rd(m3, RingWord(n, idx)))
        m5 == Wr(m4, AvailIdxWord(n), U16(Rd(m4, AvailIdxWord(n)) + 1))
        nx == Rd(m5, NextOf(d))
    IN
    IF ~InBlock(n, RingWord(n, nx)) THEN Escaped([st EXCEPT !.mem = m5])
    ELSE [mem  |-> m5,
          desc |-> Rd(m5, RingWord(n, nx)),
          oob  |-> st.oob \/ d >= n \/ idx >= n \/ nx >= n,
          ext  |-> FALSE]

\* for (...; i<in+out; ii++) over the nodes of sg
RECURSIVE add_buf_loop(_, _, _, _, _, _)
add_buf_loop(n, st, sg, i, out, in_) ==
    IF st.ext \/ ~(i < in_ + out) THEN st
    ELSE add_buf_loop(n, add_buf_body(n, st, sg[i + 1], i, in_), sg, i + 1, out, in_)

\* the whole of add_buf on memory m: [mem, desc, oob, ext, head, ret]
add_buf(n, m, sg, out, in_) ==
    LET idx0 == Rd(m, AvailIdxWord(n)) IN
    IF ~InBlock(n, RingWord(n, idx0))
    THEN [mem |-> m, desc |-> 0, oob |-> TRUE, ext |-> TRUE, head |-> 0, ret |-> TRUE]
    ELSE
    LET head == Rd(m, RingWord(n, idx0))
        st0 == [mem |-> m, desc |-> head, oob |-> idx0 >= n, ext |-> FALSE]
        st1 == add_buf_loop(n, st0, sg, 0, out, in_)
        d == st1.desc
    IN
    IF st1.ext \/ ~InBlock(n, NextOf(d))
    THEN [mem |-> st1.mem, desc |-> d, oob |-> TRUE, ext |-> TRUE,
          head |-> head, ret |-> TRUE]
    ELSE [mem  |-> Wr(st1.mem, FlagsOf(d),
                      AndNot(Rd(st1.mem, FlagsOf(d)), VRING_DESC_F_NEXT)),
          desc |-> d,
          oob  |-> st1.oob \/ d >= n,
          ext  |-> FALSE,
          head |-> head,
          ret  |-> TRUE]

-----------------------------------------------------------------------------
(* The other methods *)

\* get_buf, lines 89-92: returns nullptr, touches neither *len nor the ring,
\* and has no path that reports a fault
get_buf(m) == [ret |-> NullPtr, mem |-> m, fault |-> FALSE]

\* a kick that ignores _q_index and signals queue 0
kick_queue_zero(kicks, q) == [kicks |-> Append(kicks, 0), ret |-> TRUE]

\* kick, lines 94-98: _drv->kick(_q_index); return true;
kick(kicks, q) == [kicks |-> Append(kicks, q), ret |-> TRUE]

\* disable_callback, lines 100-103: empty body
disable_callback(m) == m

\* enable_callback, lines 105-108: return true;
enable_callback(m) == [ret |-> TRUE, mem |-> m]

\* need_event without the u16 casts
need_event_wide(event_idx, new_idx, old) ==
    IF (new_idx - event_idx - 1) < (new_idx - old) THEN 1 ELSE 0

\* need_event with <= for <: the window would take in new_idx itself
need_event_closed(event_idx, new_idx, old) ==
    IF U16(new_idx - event_idx - 1) <= U16(new_idx - old) THEN 1 ELSE 0

\* need_event, lines 52-60; the operands are promoted to int, the casts wrap
need_event(event_idx, new_idx, old) ==
    IF U16(new_idx - event_idx - 1) < U16(new_idx - old) THEN 1 ELSE 0

-----------------------------------------------------------------------------
(* What the callers pass *)

\* the k-th node of a scatter/gather list
SegAt(k) == [paddr |-> 4096 * k, len |-> 512 + k]

Req(o, i, c) ==
    [out |-> o, in |-> i, cookie |-> c, sg |-> [k \in 1..(o + i) |-> SegAt(k)]]

Requests == {Req(1, 0, "A"), Req(0, 1, "B"), Req(1, 1, "C"), Req(2, 1, "D")}

U16Samples == {0, 1, 2, 5, 32768, 65533, 65534, 65535}

-----------------------------------------------------------------------------
(* Views of the state *)

AvailIdx == Rd(mem, AvailIdxWord(num))
AvailFlags == Rd(mem, AvailFlagsWord(num))
UsedIdx == Rd(mem, UsedIdxWord(num))

\* VRING_AVAIL_F_NO_INTERRUPT, the flag the device consults before it interrupts
NoInterruptFlag == HasFlag(AvailFlags, 1)

Desc(d) ==
    [paddr |-> Rd(mem, PaddrOf(d)) + U16Mod * Rd(mem, PaddrOf(d) + 1),
     len   |-> Rd(mem, LenOf(d)) + U16Mod * Rd(mem, LenOf(d) + 1),
     flags |-> Rd(mem, FlagsOf(d)),
     next  |-> Rd(mem, NextOf(d))]

\* The free list is kept in _avail->_ring (lines 31-32) and add_buf takes the
\* entry _ring[_idx] for each segment (lines 74-75): the entries from _idx on
\* are the ones not handed out yet.
FreeCount == IF AvailIdx <= num THEN num - AvailIdx ELSE 0

ChainLen(c) == c.out + c.in

\* a - b modulo 2^16, for a and b in 0..65535
SubMod16(a, b) == IF a >= b THEN a - b ELSE a - b + U16Mod

\* the chains a reclaim has been asked for: get_buf was called with them waiting
Reclaimed == {usedLog[j].chain : j \in 1..polls}

Completed == {usedLog[j].chain : j \in 1..Len(usedLog)}

RECURSIVE SumLen(_)
SumLen(S) ==
    IF S = {} THEN 0
    ELSE LET c == CHOOSE x \in S : TRUE IN ChainLen(chains[c]) + SumLen(S \ {c})

\* segments of the chains submitted and not yet reclaimed
Outstanding == SumLen((1..Len(chains)) \ Reclaimed)

ValidQueue == num > 0 /\ IsPow2(num)

-----------------------------------------------------------------------------
(* The device registry, src/fs/devfs/device.c *)

\* the addresses malloc hands out for struct device
DevPtrs == {1, 2}

\* the threads that call into the registry; sched_lock() and sched_unlock()
\* are empty (lines 53-54), so nothing keeps two of them apart
Threads == {1, 2}

\* names passed by the callers; "" fails the length check of device_create
DevNames == {"", "vblk0"}

IoOps == {"close", "read", "write", "ioctl"}

NoDevice == [state |-> "none", name |-> "", active |-> 0, refcnt |-> 0]

IdleThread == [pc |-> "idle", op |-> "none", dev |-> 0, tmp |-> 0,
               called |-> FALSE, known |-> FALSE, ret |-> "none"]

\* device_lookup, lines 63-73: the first device on the list with that name
device_lookup(list, h, name) ==
    IF \E i \in 1..Len(list) : h[list[i]].name = name
    THEN list[CHOOSE i \in 1..Len(list) :
                /\ h[list[i]].name = name
                /\ \A j \in 1..(i - 1) : h[list[j]].name # name]
    ELSE 0

\* device_valid, lines 161-176: on the list (by pointer) and active
device_valid(list, h, dev) ==
    /\ \E i \in 1..Len(list) : list[i] = dev
    /\ h[dev].active # 0

\* the unlinking loop of device_release, lines 211-216
unlink(list, dev) == SelectSeq(list, LAMBDA x : x # dev)

-----------------------------------------------------------------------------
(* The state after construction *)

Init ==
    \E cfg \in Configs, allocated \in BOOLEAN :
        /\ num = cfg[1]
        /\ q_index = cfg[2]
        /\ ctor = [allocated |-> allocated, error |-> FALSE,
                   nullWrite |-> ~allocated]
        /\ status = IF allocated THEN "ok" ELSE "ub"
        /\ mem = IF allocated THEN vring_ctor(cfg[1]) ELSE NoMem
        /\ oob = FALSE
        /\ chains = << >>
        /\ usedLog = << >>
        /\ polls = 0
        /\ drvKicks = << >>
        /\ lastRet = [op |-> "none"]
        /\ call = [op |-> "none"]
        /\ device_list = << >>
        /\ heap = [p \in DevPtrs |-> NoDevice]
        /\ thr = [t \in Threads |-> IdleThread]
        /\ devst = "ok"
        /\ ncalls = 0

InitDev == Init /\ num = 4 /\ ctor.allocated

-----------------------------------------------------------------------------
(* The guest's calls *)

AddBuf ==
    /\ status = "ok"
    /\ Len(chains) < MaxAddBuf
    /\ \E req \in Requests :
        LET r == add_buf(num, mem, req.sg, req.out, req.in) IN
        /\ mem' = r.mem
        /\ oob' = (oob \/ r.oob)
        /\ status' = IF r.ext THEN "ub" ELSE "ok"
        /\ chains' = IF r.ext THEN chains
                     ELSE Append(chains, [head |-> r.head, out |-> req.out,
                                          in |-> req.in, cookie |-> req.cookie,
                                          sg |-> req.sg])
        /\ lastRet' = IF r.ext THEN lastRet
                      ELSE [op |-> "add_buf", ret |-> r.ret,
                            n |-> req.out + req.in, before |-> Outstanding]
    /\ UNCHANGED <<num, q_index, ctor, usedLog, polls, drvKicks, call>>
    /\ UNCHANGED devVars

GetBuf ==
    /\ status = "ok"
    /\ LET r == get_buf(mem)
           waiting == Len(usedLog) > polls
       IN
        /\ mem' = r.mem
        /\ polls' = IF waiting THEN polls + 1 ELSE polls
        /\ lastRet' = [op |-> "get_buf", ret |-> r.ret, waiting |-> waiting,
                       entry |-> IF waiting THEN polls + 1 ELSE 0,
                       fault |-> r.fault,
                       pending |-> SubMod16(UsedIdx, U16(polls)),
                       free |-> <<FreeCount,
                                  IF Rd(r.mem, AvailIdxWord(num)) <= num
                                  THEN num - Rd(r.mem, AvailIdxWord(num))
                                  ELSE 0>>]
    /\ UNCHANGED <<num, q_index, ctor, status, oob, chains, usedLog, drvKicks, call>>
    /\ UNCHANGED devVars

Kick ==
    /\ status = "ok"
    /\ Len(drvKicks) < MaxKicks
    /\ LET r == kick(drvKicks, q_index) IN
        /\ drvKicks' = r.kicks
        /\ lastRet' = [op |-> "kick", ret |-> r.ret]
    /\ UNCHANGED <<num, q_index, ctor, status, mem, oob, chains, usedLog, polls, call>>
    /\ UNCHANGED devVars

DisableCallback ==
    /\ status = "ok"
    /\ mem' = disable_callback(mem)
    /\ lastRet' = [op |-> "disable_callback"]
    /\ UNCHANGED <<num, q_index, ctor, status, oob, chains, usedLog, polls,
                   drvKicks, call>>
    /\ UNCHANGED devVars

EnableCallback ==
    /\ status = "ok"
    /\ LET r == enable_callback(mem) IN
        /\ mem' = r.mem
        /\ lastRet' = [op |-> "enable_callback", ret |-> r.ret,
                       waiting |-> Len(usedLog) > polls]
    /\ UNCHANGED <<num, q_index, ctor, status, oob, chains, usedLog, polls,
                   drvKicks, call>>
    /\ UNCHANGED devVars

-----------------------------------------------------------------------------
(* The device: it completes a submitted chain, writing (head, len) into the *)
(* used ring and advancing used.idx                                         *)

DeviceComplete ==
    /\ status = "ok"
    /\ num > 0
    /\ Len(usedLog) < MaxUsed
    /\ \E c \in (1..Len(chains)) \ Completed, len \in UsedLens :
        LET e == UsedElemWord(num, UsedIdx % num)
            m1 == WrU32(mem, e, chains[c].head)
            m2 == WrU32(m1, e + 2, len)
        IN
        /\ mem' = Wr(m2, UsedIdxWord(num), U16(UsedIdx + 1))
        /\ usedLog' = Append(usedLog, [id |-> chains[c].head, len |-> len,
                                       chain |-> c])
    /\ UNCHANGED <<num, q_index, ctor, status, oob, chains, polls, drvKicks,
                   lastRet, call>>
    /\ UNCHANGED devVars

\* The device breaks the protocol: it reports an id outside the table, or an
\* id it has reported before.  Such an entry names no chain (chain 0).
DeviceViolate ==
    /\ status = "ok"
    /\ num > 0
    /\ Len(usedLog) < MaxUsed
    /\ \E id \in {num} \cup {usedLog[j].id : j \in 1..Len(usedLog)},
          len \in UsedLens :
        LET e == UsedElemWord(num, UsedIdx % num)
            m1 == WrU32(mem, e, id)
            m2 == WrU32(m1, e + 2, len)
        IN
        /\ mem' = Wr(m2, UsedIdxWord(num), U16(UsedIdx + 1))
        /\ usedLog' = Append(usedLog, [id |-> id, len |-> len, chain |-> 0])
    /\ UNCHANGED <<num, q_index, ctor, status, oob, chains, polls, drvKicks,
                   lastRet, call>>
    /\ UNCHANGED devVars

Next ==
    \/ AddBuf
    \/ GetBuf
    \/ Kick
    \/ DisableCallback
    \/ EnableCallback
    \/ DeviceComplete

Spec == Init /\ [][Next]_vars

\* the same guest facing a device that may break the protocol
NextUntrusted ==
    \/ Next
    \/ DeviceViolate

SpecUntrusted == Init /\ [][NextUntrusted]_vars

-----------------------------------------------------------------------------
(* The static helpers, called on sampled arguments *)

-----------------------------------------------------------------------------
(* add_buf statement by statement: the device shares the ring memory and the
   code has no lock and no barrier, so the device can read the ring between
   any two stores of add_buf.  One step is one pass of the loop body. *)

\* lines 68-69: i = 0; desc = &_desc[_avail->_ring[_avail->_idx]]
AddBufEnter ==
    /\ status = "ok"
    /\ call.op = "none"
    /\ Len(chains) < MaxAddBuf
    /\ \E req \in Requests :
        IF ~InBlock(num, RingWord(num, AvailIdx))
        THEN /\ status' = "ub"
             /\ oob' = TRUE
             /\ call' = call
        ELSE /\ status' = status
             /\ oob' = oob
             /\ call' = [op |-> "add_buf", req |-> req, i |-> 0,
                         idx0 |-> AvailIdx,
                         head |-> Rd(mem, RingWord(num, AvailIdx)),
                         desc |-> Rd(mem, RingWord(num, AvailIdx)),
                         oob |-> AvailIdx >= num, ext |-> FALSE]
    /\ UNCHANGED <<num, q_index, ctor, mem, chains, usedLog, polls, drvKicks,
                   lastRet>>
    /\ UNCHANGED devVars

\* lines 70-77: one pass of the loop
AddBufStep ==
    /\ status = "ok"
    /\ call.op = "add_buf"
    /\ ~call.ext
    /\ call.i < call.req.in + call.req.out
    /\ LET st == add_buf_body(num, [mem |-> mem, desc |-> call.desc,
                                    oob |-> call.oob, ext |-> FALSE],
                              call.req.sg[call.i + 1], call.i, call.req.in)
       IN
        /\ mem' = st.mem
        /\ call' = [call EXCEPT !.i = call.i + 1, !.desc = st.desc,
                                !.oob = st.oob, !.ext = st.ext]
    /\ UNCHANGED <<num, q_index, ctor, status, oob, chains, usedLog, polls,
                   drvKicks, lastRet>>
    /\ UNCHANGED devVars

\* lines 79-86: desc->_flags &= ~VRING_DESC_F_NEXT; return true
AddBufExit ==
    /\ status = "ok"
    /\ call.op = "add_buf"
    /\ call.ext \/ ~(call.i < call.req.in + call.req.out)
    /\ IF call.ext \/ ~InBlock(num, NextOf(call.desc))
       THEN /\ mem' = mem
            /\ oob' = TRUE
            /\ status' = "ub"
            /\ chains' = chains
            /\ lastRet' = lastRet
       ELSE /\ mem' = Wr(mem, FlagsOf(call.desc),
                         AndNot(Rd(mem, FlagsOf(call.desc)), VRING_DESC_F_NEXT))
            /\ oob' = (oob \/ call.oob \/ call.desc >= num)
            /\ status' = "ok"
            /\ chains' = Append(chains, [head |-> call.head,
                                         out |-> call.req.out,
                                         in |-> call.req.in,
                                         cookie |-> call.req.cookie,
                                         sg |-> call.req.sg])
            /\ lastRet' = [op |-> "add_buf", ret |-> TRUE,
                           n |-> call.req.out + call.req.in,
                           before |-> Outstanding]
    /\ call' = [op |-> "none"]
    /\ UNCHANGED <<num, q_index, ctor, usedLog, polls, drvKicks>>
    /\ UNCHANGED devVars

NextSteps ==
    \/ AddBufEnter
    \/ AddBufStep
    \/ AddBufExit
    \/ DeviceComplete

SpecSteps == Init /\ [][NextSteps]_vars

-----------------------------------------------------------------------------
(* The calls into the device registry.  device_create is taken in one step;
   the I/O calls are taken statement by statement, and dev->refcnt++ and
   --dev->refcnt as a load followed by a store, since no lock is held. *)

\* device_create, lines 83-125
DeviceCreate ==
    /\ devst = "ok"
    /\ ncalls < MaxDevCalls
    /\ \E t \in Threads, name \in DevNames :
        /\ thr[t].pc = "idle"
        /\ IF Len(name) = 0
           THEN /\ thr' = [thr EXCEPT ![t] = [IdleThread EXCEPT
                                !.op = "create", !.ret = "NULL"]]
                /\ UNCHANGED <<device_list, heap, devst>>
           ELSE IF device_lookup(device_list, heap, name) # 0
           THEN /\ devst' = "panic"
                /\ UNCHANGED <<device_list, heap, thr>>
           ELSE \E p \in DevPtrs :
                /\ heap[p].state # "live"
                /\ heap' = [heap EXCEPT ![p] = [state |-> "live", name |-> name,
                                                active |-> 1, refcnt |-> 1]]
                /\ device_list' = <<p>> \o device_list
                /\ thr' = [thr EXCEPT ![t] = [IdleThread EXCEPT
                                !.op = "create", !.dev = p, !.ret = "dev"]]
                /\ devst' = devst
    /\ ncalls' = ncalls + 1
    /\ UNCHANGED vringVars

\* the thread t enters device_reference(dev) for the call op: the
\* device_valid test of line 185
Enter(t, op, dev) ==
    LET known == \E i \in 1..Len(device_list) : device_list[i] = dev IN
    IF device_valid(device_list, heap, dev)
    THEN thr' = [thr EXCEPT ![t] = [pc |-> "ref_load", op |-> op, dev |-> dev,
                                    tmp |-> 0, called |-> FALSE,
                                    known |-> known, ret |-> "none"]]
    ELSE thr' = [thr EXCEPT ![t] = [pc |-> "idle", op |-> op, dev |-> dev,
                                    tmp |-> 0, called |-> FALSE,
                                    known |-> known, ret |-> "ENODEV"]]

\* device_close, device_read, device_write, device_ioctl up to the
\* device_valid test (lines 272, 293, 313, 339 with 184-188)
DeviceIoCall ==
    /\ devst = "ok"
    /\ ncalls < MaxDevCalls
    /\ \E t \in Threads, op \in IoOps, dev \in DevPtrs :
        /\ thr[t].pc = "idle"
        /\ Enter(t, op, dev)
    /\ ncalls' = ncalls + 1
    /\ UNCHANGED <<device_list, heap, devst>>
    /\ UNCHANGED vringVars

\* device_open up to the device_valid test (lines 238-243 with 184-188)
DeviceOpenCall ==
    /\ devst = "ok"
    /\ ncalls < MaxDevCalls
    /\ \E t \in Threads, name \in DevNames :
        /\ thr[t].pc = "idle"
        /\ IF device_lookup(device_list, heap, name) = 0
           THEN thr' = [thr EXCEPT ![t] = [IdleThread EXCEPT
                            !.op = "open", !.ret = "ENXIO"]]
           ELSE Enter(t, "open", device_lookup(device_list, heap, name))
    /\ ncalls' = ncalls + 1
    /\ UNCHANGED <<device_list, heap, devst>>
    /\ UNCHANGED vringVars

\* a read or write of *dev by thread t after dev was freed
UseAfterFree(t) ==
    /\ heap[thr[t].dev].state # "live"
    /\ devst' = "uaf"
    /\ UNCHANGED <<device_list, heap, thr, ncalls>>

\* dev->refcnt++ (line 189), the load
RefLoad ==
    /\ devst = "ok"
    /\ \E t \in Threads :
        /\ thr[t].pc = "ref_load"
        /\ \/ UseAfterFree(t)
           \/ /\ heap[thr[t].dev].state = "live"
              /\ thr' = [thr EXCEPT ![t].pc = "ref_store",
                                    ![t].tmp = heap[thr[t].dev].refcnt]
              /\ UNCHANGED <<device_list, heap, devst, ncalls>>
    /\ UNCHANGED vringVars

\* dev->refcnt++ (line 189), the store; device_reference returns 0
RefStore ==
    /\ devst = "ok"
    /\ \E t \in Threads :
        /\ thr[t].pc = "ref_store"
        /\ \/ UseAfterFree(t)
           \/ /\ heap[thr[t].dev].state = "live"
              /\ heap' = [heap EXCEPT ![thr[t].dev].refcnt = thr[t].tmp + 1]
              /\ thr' = [thr EXCEPT ![t].pc = "op"]
              /\ UNCHANGED <<device_list, devst, ncalls>>
    /\ UNCHANGED vringVars

\* ops = dev->driver->devops; error = (*ops->...)(dev, ...)
\* (lines 250-253, 275-277, 296-298, 316-318, 342-344)
DriverOp ==
    /\ devst = "ok"
    /\ \E t \in Threads :
        /\ thr[t].pc = "op"
        /\ \/ UseAfterFree(t)
           \/ /\ heap[thr[t].dev].state = "live"
              /\ thr' = [thr EXCEPT ![t].pc = "rel_load", ![t].called = TRUE]
              /\ UNCHANGED <<device_list, heap, devst, ncalls>>
    /\ UNCHANGED vringVars

\* device_release: --dev->refcnt (line 204), the load
RelLoad ==
    /\ devst = "ok"
    /\ \E t \in Threads :
        /\ thr[t].pc = "rel_load"
        /\ \/ UseAfterFree(t)
           \/ /\ heap[thr[t].dev].state = "live"
              /\ thr' = [thr EXCEPT ![t].pc = "rel_store",
                                    ![t].tmp = heap[thr[t].dev].refcnt]
              /\ UNCHANGED <<device_list, heap, devst, ncalls>>
    /\ UNCHANGED vringVars

\* device_release: the store of --dev->refcnt and the rest, lines 204-219;
\* then the caller returns the driver's result
RelStore ==
    /\ devst = "ok"
    /\ \E t \in Threads :
        /\ thr[t].pc = "rel_store"
        /\ \/ UseAfterFree(t)
           \/ /\ heap[thr[t].dev].state = "live"
              /\ IF thr[t].tmp - 1 > 0
                 THEN /\ heap' = [heap EXCEPT
                                    ![thr[t].dev].refcnt = thr[t].tmp - 1]
                      /\ device_list' = device_list
                 ELSE /\ heap' = [heap EXCEPT
                                    ![thr[t].dev].refcnt = thr[t].tmp - 1,
                                    ![thr[t].dev].state = "freed"]
                      /\ device_list' = unlink(device_list, thr[t].dev)
              /\ thr' = [thr EXCEPT ![t].pc = "idle", ![t].ret = "ok"]
              /\ UNCHANGED <<devst, ncalls>>
    /\ UNCHANGED vringVars

NextDev ==
    \/ DeviceCreate
    \/ DeviceIoCall
    \/ DeviceOpenCall
    \/ RefLoad
    \/ RefStore
    \/ DriverOp
    \/ RelLoad
    \/ RelStore

SpecDev == InitDev /\ [][NextDev]_vars

-----------------------------------------------------------------------------
(* The pure functions, called on sampled arguments *)

NeedEventCall ==
    /\ \E e \in U16Samples, n \in U16Samples, o \in U16Samples :
        call' = [op |-> "need_event", event_idx |-> e, new_idx |-> n, old |-> o,
                 ret |-> need_event(e, n, o)]
    /\ UNCHANGED <<num, q_index, ctor, status, mem, oob, chains, usedLog, polls,
                   drvKicks, lastRet>>
    /\ UNCHANGED devVars

GetSizeCall ==
    /\ \E k \in 0..MaxLog, a \in 0..MaxAlignLog :
        call' = [op |-> "get_size", num |-> Pow2(k), align |-> Pow2(a),
                 ret |-> get_size(Pow2(k), Pow2(a))]
    /\ UNCHANGED <<num, q_index, ctor, status, mem, oob, chains, usedLog, polls,
                   drvKicks, lastRet>>
    /\ UNCHANGED devVars

\* index values on both sides of the wrap
RunSamples == {0, 1, 2, 65534, 65535}

\* the producer index goes from old to mid and then to new_idx, and need_event
\* is asked after each of the two updates, and for the two taken as one
NeedEventRunCall ==
    /\ \E e \in RunSamples, o \in RunSamples, m \in RunSamples,
          n \in RunSamples :
        call' = [op |-> "need_event_run", event_idx |-> e, old |-> o,
                 mid |-> m, new_idx |-> n,
                 first |-> need_event(e, m, o),
                 second |-> need_event(e, n, m),
                 whole |-> need_event(e, n, o)]
    /\ UNCHANGED <<num, q_index, ctor, status, mem, oob, chains, usedLog, polls,
                   drvKicks, lastRet>>
    /\ UNCHANGED devVars

\* addresses malloc may return: page-aligned ones and ones that are not
BaseSamples == {0, 4096, 16, 2064, 4080, 12304}

\* the pointers the constructor sets up, lines 20-29, as byte addresses, for a
\* block that malloc placed at base
ctor_layout(base, n) ==
    [base  |-> base,
     num   |-> n,
     sz    |-> VIRTIO_ALIGN(get_size(n, VIRTIO_PCI_VRING_ALIGN)),
     desc  |-> base,
     avail |-> base + n * SizeofDesc,
     used  |-> AndNot((base + n * SizeofDesc) + 2 * SizeofU16 + n * SizeofU16
                        + SizeofU16 + VIRTIO_PCI_VRING_ALIGN - 1,
                      VIRTIO_PCI_VRING_ALIGN - 1)]

CtorLayoutCall ==
    /\ \E k \in 0..MaxLog, base \in BaseSamples :
        call' = [op |-> "ctor_layout", ret |-> ctor_layout(base, Pow2(k))]
    /\ UNCHANGED <<num, q_index, ctor, status, mem, oob, chains, usedLog, polls,
                   drvKicks, lastRet>>
    /\ UNCHANGED devVars

NextStatic ==
    \/ NeedEventCall
    \/ GetSizeCall
    \/ CtorLayoutCall
    \/ NeedEventRunCall

InitStatic == Init /\ num = 4 /\ ctor.allocated

SpecStatic == InitStatic /\ [][NextStatic]_vars

-----------------------------------------------------------------------------
(* Properties *)

\* a properly sized queue on which no index has left its table
Clean == status = "ok" /\ ValidQueue /\ ~oob

\* the descriptors met from d following _next while VRING_DESC_F_NEXT is set
RECURSIVE ChainWalk(_, _)
ChainWalk(d, fuel) ==
    IF fuel = 0 THEN << >>
    ELSE <<d>> \o (IF HasFlag(Desc(d).flags, VRING_DESC_F_NEXT)
                   THEN ChainWalk(Desc(d).next, fuel - 1)
                   ELSE << >>)

RoundUp(x, a) == ((x + a - 1) \div a) * a

\* C1: free-list conservation: the free descriptor slots plus the segments of
\* the chains submitted and not yet reclaimed always number num, so the free
\* count is num after construction and again once every chain is reclaimed.
FreeListConservation == Clean => FreeCount + Outstanding = num

\* C2: chain integrity: after add_buf(sg, o, i, cookie) with o+i >= 1 the walk
\* from the chain head over _next while NEXT is set visits exactly o+i distinct
\* descriptors; the k-th carries segment k, has WRITE iff k >= o and NEXT iff
\* k < o+i-1.
ChainIntegrity ==
    (Clean /\ lastRet.op = "add_buf" /\ lastRet.ret /\ lastRet.n >= 1) =>
        LET c == chains[Len(chains)]
            n == ChainLen(c)
            w == ChainWalk(c.head, num + 1)
        IN /\ Len(w) = n
           /\ \A j, k \in 1..Len(w) : j # k => w[j] # w[k]
           /\ \A k \in 1..n :
                /\ Desc(w[k]).paddr = c.sg[k].paddr
                /\ Desc(w[k]).len = c.sg[k].len
                /\ HasFlag(Desc(w[k]).flags, VRING_DESC_F_WRITE) <=> (k - 1 >= c.out)
                /\ HasFlag(Desc(w[k]).flags, VRING_DESC_F_NEXT) <=> (k - 1 < n - 1)

\* C3: queue-full backpressure: add_buf succeeds iff out+in is at most the
\* number of free slots (num less the segments outstanding at the call), and
\* fails otherwise.
QueueFullBackpressure ==
    (ValidQueue /\ lastRet.op = "add_buf") =>
        (lastRet.ret <=> lastRet.n <= num - lastRet.before)

\* C4: reclaim ordering and cookie round trip: a get_buf made while a
\* completion waits returns the cookie of the chain named by the next used
\* entry, in the order the device wrote them; without one it returns nothing.
ReclaimRoundTrip ==
    (Clean /\ lastRet.op = "get_buf") =>
        IF lastRet.waiting /\ usedLog[lastRet.entry].chain # 0
        THEN lastRet.ret = chains[usedLog[lastRet.entry].chain].cookie
        ELSE lastRet.ret = NullPtr

\* C5: need_event is exact 16-bit modular arithmetic: nonzero iff
\* ((new_idx - event_idx - 1) mod 2^16) < ((new_idx - old) mod 2^16); for
\* event_idx = 0xFFFE, old = 0xFFFE, new_idx = 1 a signal is needed.
NeedEventModular ==
    call.op = "need_event" =>
        /\ (call.ret # 0) <=>
              (SubMod16(SubMod16(call.new_idx, call.event_idx), 1)
                 < SubMod16(call.new_idx, call.old))
        /\ (call.event_idx = 65534 /\ call.old = 65534 /\ call.new_idx = 1)
              => call.ret # 0

NeedEventWrapCase ==
    /\ call.op = "need_event"
    /\ call.event_idx = 65534 /\ call.old = 65534 /\ call.new_idx = 1
    /\ call.ret = 1

\* C6: layout size: for powers of two num and align, get_size is
\* round_up(desc_bytes + avail_bytes, align) + used_bytes; the part before the
\* used ring is a multiple of align and the size grows strictly with num.
GetSizeLayout ==
    call.op = "get_size" =>
        LET desc_bytes == call.num * SizeofDesc
            avail_bytes == 2 * (3 + call.num)
            used_bytes == 2 * 3 + call.num * SizeofUsedElem
        IN /\ call.ret = RoundUp(desc_bytes + avail_bytes, call.align) + used_bytes
           /\ (call.ret - used_bytes) % call.align = 0
           /\ call.ret - used_bytes >= desc_bytes + avail_bytes
           /\ \A k \in 0..MaxLog :
                Pow2(k) < call.num => get_size(Pow2(k), call.align) < call.ret

GetSizePadded ==
    /\ call.op = "get_size"
    /\ call.num = 256 /\ call.align = 4096
    /\ call.ret = 10246

\* C7: construction rejects a bad configuration: num = 0, num not a power of
\* two or a failed allocation gives a construction error and no write through
\* the missing block.
CtorRejectsBadConfig ==
    (num = 0 \/ ~IsPow2(num) \/ ~ctor.allocated) =>
        (ctor.error /\ ~ctor.nullWrite)

\* C8: enable_callback returns true iff completions are waiting in the used
\* ring when it re-checks.
EnableCallbackReportsPending ==
    (Clean /\ lastRet.op = "enable_callback") =>
        (lastRet.ret <=> lastRet.waiting)

\* C9: the "no interrupt wanted" flag is set once disable_callback has
\* returned and clear once enable_callback has returned.
SuppressionFlagFollowsCalls ==
    Clean =>
        /\ lastRet.op = "disable_callback" => NoInterruptFlag
        /\ lastRet.op = "enable_callback" => ~NoInterruptFlag

\* C11: protocol violations: when reclaim reads a used entry whose id is >= num
\* or is not the head of a chain submitted and not yet reclaimed (an id
\* reported twice included), a fatal device fault is surfaced and the free list
\* is left as it was.
ProtocolViolationSurfaced ==
    (Clean /\ lastRet.op = "get_buf" /\ lastRet.waiting
           /\ usedLog[lastRet.entry].chain = 0) =>
        (lastRet.fault /\ lastRet.free[1] = lastRet.free[2])

\* C12: publish ordering: the available index is never advanced while the chain
\* being built is incomplete, and every ring entry below the available index
\* the device can observe holds the head of a chain whose submission has
\* finished.
PublishOrdering ==
    (Clean /\ ~(call.op = "add_buf" /\ call.oob)) =>
        /\ call.op = "add_buf" => AvailIdx = call.idx0
        /\ \A k \in 0..(num - 1) :
              k < AvailIdx =>
                \E c \in 1..Len(chains) :
                    Rd(mem, RingWord(num, k)) = chains[c].head

\* C13: available-index accounting: the available index equals the number of
\* successful submits mod 2^16 (each adds exactly 1), and the c-th submit has
\* left its chain head in ring entry (c - 1) mod num.
AvailIndexCountsSubmits ==
    Clean =>
        /\ AvailIdx = Len(chains) % U16Mod
        /\ \A c \in 1..Len(chains) :
              Rd(mem, RingWord(num, (c - 1) % num)) = chains[c].head

\* the slots on the free list: the ring entries not handed out yet
FreeSlotAt(k) == Rd(mem, RingWord(num, k))

\* the submitted, not yet reclaimed chains that the slot s belongs to
ChainsHolding(s) ==
    {c \in (1..Len(chains)) \ Reclaimed :
        \E j \in 1..Len(ChainWalk(chains[c].head, num + 1)) :
            ChainWalk(chains[c].head, num + 1)[j] = s}

\* C14: slot exclusivity: every slot 0..num-1 is either on the free list
\* exactly once or part of exactly one outstanding chain, never both and never
\* neither.
SlotExclusivity ==
    Clean =>
        \A s \in 0..(num - 1) :
            Cardinality({k \in AvailIdx..(num - 1) : FreeSlotAt(k) = s})
                + Cardinality(ChainsHolding(s)) = 1

\* C15: bounded reclaim: a reclaim pass that starts with last-seen index L and
\* used index U yields (U - L) mod 2^16 results before it reports that nothing
\* is left, so get_buf answers "nothing" only when U = L.
ReclaimPassDrains ==
    (Clean /\ lastRet.op = "get_buf" /\ lastRet.ret = NullPtr) =>
        lastRet.pending = 0

\* C16: region placement: for every base address, aligned or not, the
\* descriptor table is at base, the available ring right after it, the used
\* ring at base + round_up(descriptor bytes + available bytes, align); the
\* regions do not overlap and the used ring ends inside the sz allocated bytes.
RegionPlacement ==
    call.op = "ctor_layout" =>
        LET r == call.ret
            desc_bytes == r.num * SizeofDesc
            avail_bytes == SizeofU16 * (3 + r.num)
            used_bytes == SizeofU16 * 3 + SizeofUsedElem * r.num
        IN /\ r.desc = r.base
           /\ r.avail = r.base + desc_bytes
           /\ r.used = r.base + RoundUp(desc_bytes + avail_bytes,
                                        VIRTIO_PCI_VRING_ALIGN)
           /\ r.desc + desc_bytes <= r.avail
           /\ r.avail + avail_bytes <= r.used
           /\ r.used + used_bytes <= r.base + r.sz

\* C17: index bounds: on a properly sized, allocated queue no add_buf ever
\* uses an index outside 0..num-1 on _avail->_ring or on _desc, the descriptor
\* touched after the loop included.
IndexBounds == (ctor.allocated /\ ValidQueue) => ~oob

\* C18: need_event window: need_event(event_idx, new_idx, old) is true exactly
\* when event_idx is one of the (new_idx - old) mod 2^16 indices old, old+1,
\* ..., new_idx-1; it is false when new_idx = old; and of two updates that
\* together advance the index less than once around, exactly one reports
\* true if the two taken as one cross event_idx, none otherwise.
NeedEventWindow ==
    /\ call.op = "need_event" =>
          /\ (call.ret # 0) <=>
                (SubMod16(call.event_idx, call.old)
                   < SubMod16(call.new_idx, call.old))
          /\ call.new_idx = call.old => call.ret = 0
    /\ (call.op = "need_event_run"
          /\ SubMod16(call.mid, call.old) + SubMod16(call.new_idx, call.mid)
               = SubMod16(call.new_idx, call.old)) =>
          call.first + call.second = call.whole

\* a run over the wrap: 0xFFFE -> 0xFFFF -> 1 with event_idx = 0
NeedEventRunAcrossWrap ==
    /\ call.op = "need_event_run"
    /\ call.old = 65534 /\ call.mid = 65535 /\ call.new_idx = 1
    /\ call.event_idx = 0
    /\ call.first = 0 /\ call.second = 1 /\ call.whole = 1

\* the threads that hold a reference on p: past the device_valid test of
\* device_reference and not yet through device_release
Between(p) == {t \in Threads : thr[t].pc # "idle" /\ thr[t].dev = p}

\* C19: device reference counting, for any interleaving of the calls: every
\* device on device_list has refcnt >= 1; the I/O calls leave refcnt as they
\* found it, so with no call under way every device created is still there
\* with the refcnt 1 that device_create gave it; no
\* device is freed or unlinked while a caller is between its device_reference
\* and its device_release, and none touches a freed device; a call on a device
\* that is not on the list returns ENODEV without a driver operation.
DeviceRefcounting ==
    /\ devst # "uaf"
    /\ \A i \in 1..Len(device_list) :
          /\ heap[device_list[i]].state = "live"
          /\ heap[device_list[i]].refcnt >= 1
    /\ (\A t \in Threads : thr[t].pc = "idle") =>
          \A p \in DevPtrs :
              heap[p].state # "none" =>
                  (heap[p].state = "live" /\ heap[p].refcnt = 1)
    /\ \A p \in DevPtrs : heap[p].state = "freed" => Between(p) = {}
    /\ \A t \in Threads :
          (thr[t].pc = "idle" /\ thr[t].op \in IoOps /\ ~thr[t].known) =>
              (thr[t].ret = "ENODEV" /\ ~thr[t].called)

\* C10: kick is unconditional and leaves the ring alone: every call invokes
\* the driver's kick once with this queue's index, returns true and changes
\* neither the descriptor table, the rings nor the free list.
KickUnconditional ==
    [][((lastRet'.op = "kick" /\ lastRet.op # "kick") \/ drvKicks' # drvKicks) =>
          /\ drvKicks' = Append(drvKicks, q_index)
          /\ lastRet' = [op |-> "kick", ret |-> TRUE]
          /\ mem' = mem
          /\ UNCHANGED <<num, q_index, status, oob, chains, usedLog, polls>>]_vars

KickOnBusyRing ==
    /\ lastRet.op = "kick"
    /\ drvKicks = <<1>>
    /\ q_index = 1
    /\ Outstanding >= num
    /\ Len(usedLog) > 0

====
